---- MODULE Spec2Model ----
(***************************************************************************)
(* A model of agenticv2.py, the Agentic AI Planner.                        *)
(*                                                                         *)
(* Strings the program builds with f-strings are modelled as tuples of     *)
(* their parts: f"Week {w}" is <<"Week", w>>, f"{wk}_{t}" is <<wk, t>>.    *)
(* A Python dict that is read only through .get(key, default) is a record  *)
(* whose missing keys hold the default; the set `keys` keeps which keys    *)
(* the dict really has, since the truth value of a dict depends on it.     *)
(* plan.weeks is an insertion-ordered dict: a sequence of entries, each    *)
(* carrying its label, written through DictSet.                            *)
(***************************************************************************)
EXTENDS Integers, Sequences, FiniteSets, TLC

VARIABLES
    plan,           \* the plan a function returned / st.session_state.plan
    last,           \* the inputs of the operation that produced this state
    api_calls,      \* openai.ChatCompletion.create calls of the last generation
    warnings,       \* st.warning calls of the last generation
    percent,        \* st.session_state.percent
    current_week,   \* st.session_state.current_week
    tasks_checked,  \* st.session_state.tasks_checked
    widgets,        \* the checkbox widgets the last script run rendered
    shown,          \* what the last script run displayed
    pdf_pc,         \* create_pdf_bytes: the statement it is at
    y,              \* create_pdf_bytes: the vertical cursor
    drawn           \* create_pdf_bytes: where the last drawString painted

vars == <<plan, last, api_calls, warnings, percent, current_week,
          tasks_checked, widgets, shown, pdf_pc, y, drawn>>

(***************************************************************************)
(* Bounds of the model.                                                    *)
(***************************************************************************)
MaxWeeks == 5          \* fallback_plan: weeks drawn from 1..MaxWeeks
MaxGenWeeks == 1       \* call_openai_for_plan: weeks drawn from 1..MaxGenWeeks
MaxTextLen == 3        \* length of the text the external service returns
MaxPlanWeeks == 2      \* recompress_plan: weeks of the plan it is given
MaxTasks == 5          \* recompress_plan: tasks of one week of that plan
MaxRes == 1            \* recompress_plan: resources of one week of that plan
MaxRem == 3            \* recompress_plan: remaining_weeks drawn from 0..MaxRem
MaxLifeWeeks == 2      \* plan lifecycle: weeks drawn from 1..MaxLifeWeeks
MaxLifeRem == 3        \* plan lifecycle: remaining_weeks drawn from 0..MaxLifeRem
MaxGoalLen == 1        \* session: length of the goal typed into the form
MaxSessionWeeks == 1   \* session: weeks drawn from 1..MaxSessionWeeks
MaxTotal == 50         \* progress: tasks the rendering loop counts

Min(a, b) == IF a < b THEN a ELSE b
Max(a, b) == IF a > b THEN a ELSE b

(***************************************************************************)
(* Python helpers.                                                         *)
(***************************************************************************)
\* s[a:b] for 0 <= a <= b: the slice is clamped to the end of s.
Slice(s, a, b) == SubSeq(s, a + 1, Min(b, Len(s)))

\* d[key] = entry on an insertion-ordered dict: an existing key keeps its
\* place and gets the new value, a new key is appended.
DictSet(d, entry) ==
    IF \E i \in 1..Len(d) : d[i].label = entry.label
    THEN [i \in 1..Len(d) |-> IF d[i].label = entry.label THEN entry ELSE d[i]]
    ELSE Append(d, entry)

RECURSIVE Flatten(_, _)
\* all_x.extend(entry.get(field, [])) over the weeks in order.
Flatten(weeks, field) ==
    IF weeks = <<>> THEN <<>>
    ELSE weeks[1][field] \o Flatten(Tail(weeks), field)

Labels(p) == [i \in 1..Len(p.weeks) |-> p.weeks[i].label]
WeekLabel_FromZero(w) == <<"Week", w - 1>>
\* f"Week {w}", f"Week {i+1}"
WeekLabel(w) == <<"Week", w>>

\* {}
EmptyMap == [k \in {} |-> FALSE]

NonePlan ==
    [type |-> "None", keys |-> {}, milestones |-> <<>>, weeks |-> <<>>,
     mentor_notes |-> <<>>]

(***************************************************************************)
(* fallback_plan                                                           *)
(***************************************************************************)
MentorStyles == {"Coach (tough-love)", "Zen Monk (calm)", "Tech Bro (hype)"}

milestones_templates ==
    <<"Foundation", "Core Skills", "Practice & Projects", "Final Project">>

Tips ==
    {"Consistency beats intensity. Try daily small steps.",
     "Break tasks into 25-minute Pomodoro sprints.",
     "Google errors, read docs, then refactor."}

\* The outcomes of the random.choice calls of one fallback_plan(weeks).
TipChoices(weeks) == [1..Max(1, weeks) -> Tips]

FallbackMilestones_OffByOne(weeks) ==
    [i \in 1..Min(4, weeks) |-> <<milestones_templates[i], "Week", i>>]
        \o (IF weeks >= 4 THEN <<<<"Polish & Review">>>> ELSE <<>>)

FallbackMilestones(weeks) ==
    [i \in 1..Min(4, weeks) |-> <<milestones_templates[i], "Week", i>>]
        \o (IF weeks > 4 THEN <<<<"Polish & Review">>>> ELSE <<>>)

FallbackWeek(w, mentor_style, tip) ==
    [label |-> WeekLabel(w),
     Tasks |-> << <<mentor_style, "Task", w>>, <<"Practice", w>> >>,
     Resources |-> << <<"Official docs / Quick YouTube tutorial">>,
                      <<"A short project or code-along">> >>,
     Reflection |-> "What was the biggest challenge this week and one action to fix it?",
     Mentor_Tip |-> tip]

RECURSIVE FallbackWeeks(_, _, _, _)
\* the loop `for w in range(1, weeks+1)`, w = from..weeks, onto weeks_dict d
FallbackWeeks(d, from, weeks, wk) ==
    IF from > weeks THEN d
    ELSE FallbackWeeks(DictSet(d, wk[from]), from + 1, weeks, wk)

fallback_plan(goal, weeks_in, mentor_style, tip) ==
    LET weeks == Max(1, weeks_in)
        wk == [w \in 1..weeks |-> FallbackWeek(w, mentor_style, tip[w])]
    IN  [type |-> "dict",
         keys |-> {"milestones", "weeks", "mentor_notes"},
         milestones |-> FallbackMilestones(weeks),
         weeks |-> FallbackWeeks(<<>>, 1, weeks, wk),
         mentor_notes |-> <<"As", mentor_style, "Goal", goal, "in", weeks, "weeks">>]

(***************************************************************************)
(* Text.  A text is a sequence of characters over Chars: the two braces,   *)
(* a digit, a letter of prose, a blank, and "m", which stands for one      *)
(* well-formed object member without braces: "milestones": ["Foundation"]. *)
(***************************************************************************)
Chars == {"{", "}", "1", "x", " ", "m"}
TextsUpTo(n) == UNION {[1..k -> Chars] : k \in 0..n}

RECURSIVE LStrip(_)
LStrip(s) == IF s # <<>> /\ s[1] = " " THEN LStrip(Tail(s)) ELSE s
RECURSIVE RStrip(_)
RStrip(s) ==
    IF s # <<>> /\ s[Len(s)] = " " THEN RStrip(SubSeq(s, 1, Len(s) - 1)) ELSE s
\* str.strip()
Strip(s) == RStrip(LStrip(s))

\* str.find(ch) and str.rfind(ch): a 0-based index, or -1
Find(s, ch) ==
    IF \E i \in 1..Len(s) : s[i] = ch
    THEN (CHOOSE i \in 1..Len(s) : s[i] = ch /\ \A j \in 1..(i - 1) : s[j] # ch) - 1
    ELSE -1
RFind(s, ch) ==
    IF \E i \in 1..Len(s) : s[i] = ch
    THEN (CHOOSE i \in 1..Len(s) : s[i] = ch /\ \A j \in (i + 1)..Len(s) : s[j] # ch) - 1
    ELSE -1

\* json.loads over Chars: blanks around a value are skipped; a value is a
\* number (digits) or an object, which holds no member or the one member "m".
\* Anything else raises.  ok is FALSE where json.loads raises.
IsJsonNumber(t) == t # <<>> /\ \A i \in 1..Len(t) : t[i] = "1"
IsJsonObject(t) ==
    /\ Len(t) >= 2
    /\ t[1] = "{"
    /\ t[Len(t)] = "}"
    /\ Strip(SubSeq(t, 2, Len(t) - 1)) \in {<<>>, <<"m">>}
json_loads(text) ==
    LET t == Strip(text) IN
    IF IsJsonNumber(t)
    THEN [ok |-> TRUE, value |-> [NonePlan EXCEPT !.type = "int"]]
    ELSE IF IsJsonObject(t)
    THEN [ok |-> TRUE,
          value |-> IF Strip(SubSeq(t, 2, Len(t) - 1)) = <<"m">>
                    THEN [NonePlan EXCEPT !.type = "dict",
                                          !.keys = {"milestones"},
                                          !.milestones = << <<"Foundation">> >>]
                    ELSE [NonePlan EXCEPT !.type = "dict"]]
    ELSE [ok |-> FALSE, value |-> NonePlan]

(***************************************************************************)
(* get_openai_api_key and call_openai_for_plan                             *)
(***************************************************************************)
NoValue == "<none>"     \* st.secrets[...] raising, os.environ.get giving None
SecretsValues == {NoValue, "", "sk-test"}
EnvironValues == {NoValue, "sk-test"}

get_openai_api_key(secrets, environ) ==
    IF secrets = NoValue THEN environ ELSE secrets

\* `not api_key`
Falsy(key) == key \in {NoValue, ""}

\* lines 61-65: the text, stripped, cut from the first "{" to the last "}"
ExtractJson(content) ==
    LET text == Strip(content)
        start == Find(text, "{")
        end == RFind(text, "}")
    IN  IF start # -1 /\ end # -1 THEN Slice(text, start, end + 1) ELSE text

GenerateFailed_Retry(req, tip, calls) ==
    [plan |-> fallback_plan(req.goal, req.weeks, req.mentor_style, tip),
     calls |-> calls + 1, warnings |-> 1]

GenerateFailed_Silent(req, tip, calls) ==
    [plan |-> fallback_plan(req.goal, req.weeks, req.mentor_style, tip),
     calls |-> calls, warnings |-> 0]

\* the except branch: one warning, then the fallback plan
GenerateFailed(req, tip, calls) ==
    [plan |-> fallback_plan(req.goal, req.weeks, req.mentor_style, tip),
     calls |-> calls, warnings |-> 1]

\* req: the arguments, what the environment holds, and what the try block
\* meets (req.api): the import failing ("import_error"), the call or the
\* reading of its response raising ("raises"), or a text coming back
\* ("responds", req.text).  tip: the outcomes of random.choice, should the
\* fallback run.
call_openai_for_plan(req, tip) ==
    IF Falsy(get_openai_api_key(req.secrets, req.environ))
    THEN [plan |-> fallback_plan(req.goal, req.weeks, req.mentor_style, tip),
          calls |-> 0, warnings |-> 0]
    ELSE IF req.api = "import_error" THEN GenerateFailed(req, tip, 0)
    ELSE IF req.api = "raises" THEN GenerateFailed(req, tip, 1)
    ELSE LET parsed == json_loads(ExtractJson(req.text)) IN
         IF parsed.ok
         THEN [plan |-> parsed.value, calls |-> 1, warnings |-> 0]
         ELSE GenerateFailed(req, tip, 1)

\* The requests with arguments from the given sets.  The service answers
\* only when it is called: with no key there is no outcome and no text.
Requests(goals, weeksSet, secretsSet, texts) ==
    LET args == [goal : goals, weeks : weeksSet, mentor_style : MentorStyles,
                 secrets : secretsSet, environ : EnvironValues]
        with(a, api, text) ==
            [op |-> "call", goal |-> a.goal, weeks |-> a.weeks,
             mentor_style |-> a.mentor_style, secrets |-> a.secrets,
             environ |-> a.environ, api |-> api, text |-> text]
    IN  {with(a, "none", <<>>) :
            a \in {b \in args : Falsy(get_openai_api_key(b.secrets, b.environ))}}
        \cup
        UNION {{with(a, "import_error", <<>>), with(a, "raises", <<>>)}
                  \cup {with(a, "responds", t) : t \in texts} :
            a \in {b \in args : ~Falsy(get_openai_api_key(b.secrets, b.environ))}}

(***************************************************************************)
(* The variables a specification does not use stay as they start.          *)
(***************************************************************************)
NoSession ==
    /\ percent = 0
    /\ current_week = 1
    /\ tasks_checked = EmptyMap
    /\ widgets = EmptyMap
    /\ shown = [progress |-> 0, xp |-> 0, error |-> FALSE, crashed |-> FALSE]
NoGen == api_calls = 0 /\ warnings = 0
NoPdf == pdf_pc = "idle" /\ y = 0 /\ drawn = 0

(***************************************************************************)
(* SpecFallback: fallback_plan applied to arguments drawn from small sets. *)
(***************************************************************************)
InitFallback ==
    /\ plan = NonePlan
    /\ last \in [op : {"call"}, goal : {<<"a">>}, weeks : 0..MaxWeeks,
                 mentor_style : MentorStyles]
    /\ NoGen /\ NoSession /\ NoPdf

FallbackReturns ==
    /\ last.op = "call"
    /\ \E tip \in TipChoices(last.weeks) :
           plan' = fallback_plan(last.goal, last.weeks, last.mentor_style, tip)
    /\ last' = [last EXCEPT !.op = "return"]
    /\ UNCHANGED <<api_calls, warnings, percent, current_week, tasks_checked,
                   widgets, shown, pdf_pc, y, drawn>>

NextFallback == FallbackReturns
SpecFallback == InitFallback /\ [][NextFallback]_vars

(***************************************************************************)
(* SpecGen: call_openai_for_plan applied to requests drawn from small sets.*)
(***************************************************************************)
InitGen ==
    /\ plan = NonePlan
    /\ last \in Requests({<<"a">>}, 1..MaxGenWeeks, SecretsValues,
                          TextsUpTo(MaxTextLen))
    /\ NoGen /\ NoSession /\ NoPdf

GenerateReturns ==
    /\ last.op = "call"
    /\ \E tip \in TipChoices(last.weeks) :
           LET r == call_openai_for_plan(last, tip) IN
           /\ plan' = r.plan
           /\ api_calls' = r.calls
           /\ warnings' = r.warnings
    /\ last' = [last EXCEPT !.op = "return"]
    /\ UNCHANGED <<percent, current_week, tasks_checked, widgets, shown,
                   pdf_pc, y, drawn>>

NextGen == GenerateReturns
SpecGen == InitGen /\ [][NextGen]_vars

(***************************************************************************)
(* Claims about fallback_plan and call_openai_for_plan.                    *)
(***************************************************************************)
WeekLabels(n) == [i \in 1..n |-> <<"Week", i>>]

\* C1: for weeks >= 1 fallback_plan returns min(weeks,4) + (1 if weeks > 4)
\* milestones and exactly `weeks` entries labelled Week 1 .. Week weeks, in
\* order.
C1_FallbackShape ==
    (last.op = "return" /\ last.weeks >= 1) =>
        /\ Len(plan.milestones)
               = Min(last.weeks, 4) + (IF last.weeks > 4 THEN 1 ELSE 0)
        /\ Labels(plan) = WeekLabels(last.weeks)

C1_Witness ==
    /\ last.op = "return"
    /\ last.weeks = 5
    /\ Len(plan.milestones) = 5
    /\ plan.milestones[5] = <<"Polish & Review">>
    /\ Len(plan.weeks) = 5

\* The three failure cases of the generator: no credential, the call (or
\* the import before it) raising, a text that does not parse once cut from
\* its first "{" to its last "}".
NoCredential(req) == Falsy(get_openai_api_key(req.secrets, req.environ))
CallRaised(req) == ~NoCredential(req) /\ req.api \in {"import_error", "raises"}
TextUnparsable(req) ==
    ~NoCredential(req) /\ req.api = "responds" /\ ~json_loads(ExtractJson(req.text)).ok
IsFallbackOf(p, req) ==
    \E tip \in TipChoices(req.weeks) :
        p = fallback_plan(req.goal, req.weeks, req.mentor_style, tip)

\* C2: one invocation issues the external call at most once, and in each
\* failure case returns the fallback plan of the same arguments.
C2_OneCallThenFallback ==
    last.op = "return" =>
        /\ api_calls <= 1
        /\ (NoCredential(last) \/ CallRaised(last) \/ TextUnparsable(last))
               => IsFallbackOf(plan, last)

C2_Witness ==
    /\ last.op = "return"
    /\ last.text = <<"x", "}", "{">>
    /\ api_calls = 1
    /\ plan.type = "dict"
    /\ Len(plan.weeks) = last.weeks

Filler == <<"Catch-up session: review core concepts">>
Placeholder == <<"Docs">>

TasksPerWeek_Ceiling(total, rem) == Max(1, (total + rem - 1) \div rem)

\* t_per_week = max(1, len(all_tasks)//rem)
TasksPerWeek(total, rem) == Max(1, total \div rem)

RecompressTasks_LongChunk(all_tasks, i, t) ==
    LET slice_tasks == Slice(all_tasks, i * t, (i + 1) * t + 1)
    IN  IF slice_tasks = <<>> THEN <<Filler>> ELSE slice_tasks

\* lines 117-119, for week index i (from 0)
RecompressTasks(all_tasks, i, t) ==
    LET slice_tasks == Slice(all_tasks, i * t, (i + 1) * t)
    IN  IF slice_tasks = <<>> THEN <<Filler>> ELSE slice_tasks

RecompressResources_PerSlice(all_resources, i, t) ==
    LET slice == Slice(all_resources, i * t, (i + 1) * t)
    IN  IF slice # <<>> THEN slice ELSE <<Placeholder>>

\* line 122, for week index i (from 0)
RecompressResources(all_resources, i, t) ==
    IF all_resources # <<>>
    THEN Slice(all_resources, i * t, (i + 1) * t)
    ELSE <<Placeholder>>

RECURSIVE RecompressWeeks(_, _, _, _, _, _)
\* the loop `for i in range(rem)`, i = from..rem-1, onto new_weeks d
RecompressWeeks(d, from, rem, all_tasks, all_resources, t) ==
    IF from >= rem THEN d
    ELSE RecompressWeeks(
             DictSet(d, [label |-> WeekLabel(from + 1),
                         Tasks |-> RecompressTasks(all_tasks, from, t),
                         Resources |-> RecompressResources(all_resources, from, t),
                         Reflection |-> "What will you prioritize next week?",
                         Mentor_Tip |-> "Focus on the highest-impact tasks first."]),
             from + 1, rem, all_tasks, all_resources, t)

recompress_plan(plan_json, remaining_weeks) ==
    LET all_tasks == Flatten(plan_json.weeks, "Tasks")
        all_resources == Flatten(plan_json.weeks, "Resources")
        rem == Max(1, remaining_weeks)
        t_per_week == TasksPerWeek(Len(all_tasks), rem)
    IN  [plan_json EXCEPT
            !.weeks = RecompressWeeks(<<>>, 0, rem, all_tasks, all_resources, t_per_week),
            !.keys = @ \cup {"weeks"}]

(***************************************************************************)
(* SpecRecompress: recompress_plan applied once to a plan drawn from the   *)
(* plans of up to MaxPlanWeeks weeks, each with up to MaxTasks tasks and   *)
(* MaxRes resources, all distinct.                                         *)
(***************************************************************************)
InputWeek(i, nTasks, nRes) ==
    [label |-> WeekLabel(i),
     Tasks |-> [j \in 1..nTasks |-> <<"T", i, j>>],
     Resources |-> [j \in 1..nRes |-> <<"R", i, j>>],
     Reflection |-> "reflection",
     Mentor_Tip |-> "tip"]

InputPlans(maxWeeks) ==
    UNION {
        {[type |-> "dict",
          keys |-> {"milestones", "weeks", "mentor_notes"},
          milestones |-> << <<"Foundation">> >>,
          weeks |-> [i \in 1..n |-> InputWeek(i, shape[i][1], shape[i][2])],
          mentor_notes |-> <<"notes">>] :
            shape \in [1..n -> (0..MaxTasks) \X (0..MaxRes)]} :
        n \in 0..maxWeeks}

InitRecompress ==
    /\ plan \in InputPlans(MaxPlanWeeks)
    /\ \E r \in 0..MaxRem : last = [op |-> "call", rem |-> r, before |-> plan]
    /\ NoGen /\ NoSession /\ NoPdf

RecompressReturns ==
    /\ last.op = "call"
    /\ plan' = recompress_plan(plan, last.rem)
    /\ last' = [last EXCEPT !.op = "return"]
    /\ UNCHANGED <<api_calls, warnings, percent, current_week, tasks_checked,
                   widgets, shown, pdf_pc, y, drawn>>

NextRecompress == RecompressReturns
SpecRecompress == InitRecompress /\ [][NextRecompress]_vars

(***************************************************************************)
(* Claims about recompress_plan.                                           *)
(***************************************************************************)
Range(s) == {s[i] : i \in 1..Len(s)}
TasksBefore == Flatten(last.before.weeks, "Tasks")
ResourcesBefore == Flatten(last.before.weeks, "Resources")
TotalBefore == Len(TasksBefore)
Rem == Max(1, last.rem)
PerWeek == Max(1, TotalBefore \div Rem)
SumAfter == Len(Flatten(plan.weeks, "Tasks"))
\* the original tasks that are in no week of the recompressed plan
Dropped == Cardinality(Range(TasksBefore) \ Range(Flatten(plan.weeks, "Tasks")))
Sizes == [i \in 1..Len(plan.weeks) |-> Len(plan.weeks[i].Tasks)]

\* C4 as stated: the task lists after recompression sum to at most the
\* total before, and to exactly the total when total % rem = 0.
C4_NeverMoreTasks ==
    last.op = "return" =>
        /\ SumAfter <= TotalBefore
        /\ (TotalBefore % Rem = 0) => (SumAfter = TotalBefore)

\* C4 as amended: that holds when total >= rem; when total < rem every
\* empty week gets one filler task and the lists sum to rem, above total.
C4_NeverMoreTasksUnlessFilled ==
    last.op = "return" =>
        IF TotalBefore >= Rem
        THEN /\ SumAfter <= TotalBefore
             /\ (TotalBefore % Rem = 0) => (SumAfter = TotalBefore)
        ELSE SumAfter = Rem

C4_Witness ==
    /\ last.op = "return"
    /\ TotalBefore = 1
    /\ Rem = 3
    /\ Sizes = <<1, 1, 1>>
    /\ plan.weeks[2].Tasks = <<Filler>>

\* C5 as stated: rem chunks of size per_week, and the number of original
\* tasks in no week afterwards is total mod per_week.
C5_DroppedIsTotalModPerWeek ==
    last.op = "return" =>
        /\ Len(plan.weeks) = Rem
        /\ Dropped = TotalBefore % PerWeek

\* C5 as amended: week i holds the slice [i*per_week, (i+1)*per_week) of the
\* flattened tasks, cut at its end, or the filler when that slice is empty;
\* the number dropped is total mod rem when total >= rem and 0 otherwise.
C5_DroppedIsTotalModRem ==
    last.op = "return" =>
        /\ Len(plan.weeks) = Rem
        /\ \A i \in 1..Rem :
               plan.weeks[i].Tasks =
                   IF (i - 1) * PerWeek < TotalBefore
                   THEN [j \in 1..(Min(i * PerWeek, TotalBefore) - (i - 1) * PerWeek)
                             |-> TasksBefore[(i - 1) * PerWeek + j]]
                   ELSE <<Filler>>
        /\ Dropped = IF TotalBefore >= Rem THEN TotalBefore % Rem ELSE 0

C5_Witness ==
    /\ last.op = "return"
    /\ TotalBefore = 10
    /\ Rem = 3
    /\ PerWeek = 3
    /\ Sizes = <<3, 3, 3>>
    /\ Dropped = 1

ResourceSlice(i) ==
    [j \in 1..(Min(i * PerWeek, Len(ResourcesBefore)) - (i - 1) * PerWeek)
         |-> ResourcesBefore[(i - 1) * PerWeek + j]]

\* C6 as stated: each week's resources are its slice of the flattened
\* resources, a week whose slice is empty gets the single placeholder, and
\* so no week has an empty resource list.
C6_PlaceholderWhenSliceEmpty ==
    last.op = "return" =>
        \A i \in 1..Len(plan.weeks) :
            /\ plan.weeks[i].Resources =
                   IF ResourceSlice(i) # <<>> THEN ResourceSlice(i)
                   ELSE <<Placeholder>>
            /\ plan.weeks[i].Resources # <<>>

\* C6 as amended: the placeholder is given only when the plan has no
\* resource at all, and then to every week; otherwise a week whose slice has
\* run out keeps an empty resource list.
C6_PlaceholderOnlyWhenNoResources ==
    last.op = "return" =>
        \A i \in 1..Len(plan.weeks) :
            plan.weeks[i].Resources =
                IF ResourcesBefore = <<>> THEN <<Placeholder>>
                ELSE ResourceSlice(i)

C6_Witness ==
    /\ last.op = "return"
    /\ ResourcesBefore # <<>>
    /\ Len(ResourcesBefore) < TotalBefore
    /\ plan.weeks[1].Resources # <<>>
    /\ \E i \in 1..Len(plan.weeks) :
           plan.weeks[i].Resources = <<>> /\ plan.weeks[i].Tasks # <<Filler>>

(***************************************************************************)
(* Spec: the life of one plan.  It is generated by call_openai_for_plan,   *)
(* generated again, and recompressed, in any order.                        *)
(***************************************************************************)
\* The texts the service answers with here: an empty object, an object with
\* milestones only, prose, a number.
LifeTexts == {<<"{", "}">>, <<"{", "m", "}">>, <<"x">>, <<"1">>}
LifeRequests == Requests({<<"a">>}, 1..MaxLifeWeeks, {NoValue}, LifeTexts)
NoRequest ==
    [op |-> "none", goal |-> <<>>, weeks |-> 0, mentor_style |-> "",
     secrets |-> NoValue, environ |-> NoValue, api |-> "none", text |-> <<>>]

Init ==
    /\ plan = NonePlan
    /\ last = [op |-> "init", req |-> NoRequest, rem |-> 0,
               milestones |-> <<>>, mentor_notes |-> <<>>]
    /\ NoGen /\ NoSession /\ NoPdf

Generate(req, tip) ==
    LET r == call_openai_for_plan(req, tip) IN
    /\ plan' = r.plan
    /\ api_calls' = r.calls
    /\ warnings' = r.warnings
    /\ last' = [op |-> "generate", req |-> req, rem |-> 0,
                milestones |-> <<>>, mentor_notes |-> <<>>]
    /\ UNCHANGED <<percent, current_week, tasks_checked, widgets, shown,
                   pdf_pc, y, drawn>>

\* recompress_plan reads plan_json.get: it raises on None and on a number
Recompress(remaining_weeks) ==
    /\ plan.type = "dict"
    /\ plan' = recompress_plan(plan, remaining_weeks)
    /\ last' = [op |-> "recompress", req |-> NoRequest, rem |-> remaining_weeks,
                milestones |-> plan.milestones, mentor_notes |-> plan.mentor_notes]
    /\ UNCHANGED <<api_calls, warnings, percent, current_week, tasks_checked,
                   widgets, shown, pdf_pc, y, drawn>>

Next ==
    \/ \E req \in LifeRequests : \E tip \in TipChoices(req.weeks) : Generate(req, tip)
    \/ \E r \in 0..MaxLifeRem : Recompress(r)

Spec == Init /\ [][Next]_vars

\* C7 as stated: after any generation or recompression the week labels are
\* Week 1 .. Week N in order, N the week count of that operation, and a
\* recompression leaves milestones and mentor_notes as they were.
C7_LabelsAfterAnyOperation ==
    /\ last.op = "generate" => Labels(plan) = WeekLabels(last.req.weeks)
    /\ last.op = "recompress" =>
           /\ Labels(plan) = WeekLabels(Max(1, last.rem))
           /\ plan.milestones = last.milestones
           /\ plan.mentor_notes = last.mentor_notes

\* C7 as amended: that holds after a generation that fell back to
\* fallback_plan and after every recompression; a plan parsed from the
\* service's answer is returned as it came, whatever weeks it holds.
C7_LabelsAfterFallbackOrRecompress ==
    /\ (last.op = "generate"
           /\ (NoCredential(last.req) \/ CallRaised(last.req) \/ TextUnparsable(last.req)))
       => Labels(plan) = WeekLabels(last.req.weeks)
    /\ last.op = "recompress" =>
           /\ Labels(plan) = WeekLabels(Max(1, last.rem))
           /\ plan.milestones = last.milestones
           /\ plan.mentor_notes = last.mentor_notes

C7_Witness ==
    /\ last.op = "recompress"
    /\ last.rem = 3
    /\ Len(plan.weeks) = 3
    /\ Len(plan.milestones) = 2
    /\ plan.weeks[3].Tasks # <<Filler>>

(***************************************************************************)
(* Floating point.  completed_tasks/total_tasks*100 is computed in IEEE     *)
(* 754 doubles: a correctly rounded division, then a correctly rounded     *)
(* product, each to a 53 bit significand, ties to even.  A positive double *)
(* is [a, b, c, exp]: its significand is a * 2^36 + b * 2^18 + c, with     *)
(* 2^16 <= a < 2^17 and b, c < 2^18 (three limbs, so that no intermediate  *)
(* exceeds 31 bits), and its value is the significand times 2^exp.         *)
(***************************************************************************)
RECURSIVE Pow2(_)
Pow2(n) == IF n = 0 THEN 1 ELSE 2 * Pow2(n - 1)

Limb == Pow2(18)
TopMin == Pow2(16)

RECURSIVE BitLen(_)
BitLen(n) == IF n = 0 THEN 0 ELSE 1 + BitLen(n \div 2)

\* Round to nearest, ties to even: [a, b, c, exp] are the bits kept, half
\* the next bit, sticky whether anything non-zero lies below it.
RoundEven(a, b, c, exp, half, sticky) ==
    IF half = 1 /\ (sticky \/ c % 2 = 1)
    THEN IF c + 1 < Limb THEN [a |-> a, b |-> b, c |-> c + 1, exp |-> exp]
         ELSE IF b + 1 < Limb THEN [a |-> a, b |-> b + 1, c |-> 0, exp |-> exp]
         ELSE IF a + 1 < 2 * TopMin THEN [a |-> a + 1, b |-> 0, c |-> 0, exp |-> exp]
         ELSE [a |-> TopMin, b |-> 0, c |-> 0, exp |-> exp + 1]
    ELSE [a |-> a, b |-> b, c |-> c, exp |-> exp]

RECURSIVE Shift(_, _)
\* the least s with n * 2^s >= t
Shift(n, t) == IF n >= t THEN 0 ELSE 1 + Shift(2 * n, t)

\* float(n) / float(t) for 1 <= n <= t < 2^12: long division, 17 then 18
\* then 18 bits, and the remainder decides the rounding
DoubleDiv(n, t) ==
    LET s == Shift(n, t)
        r0 == n * Pow2(s)
        a == (r0 * TopMin) \div t
        r1 == (r0 * TopMin) % t
        b == (r1 * Limb) \div t
        r2 == (r1 * Limb) % t
        c == (r2 * Limb) \div t
        r3 == (r2 * Limb) % t
        half == IF 2 * r3 >= t THEN 1 ELSE 0
    IN  RoundEven(a, b, c, -52 - s, half, 2 * r3 - half * t # 0)

\* x * float(k) for an integer 1 <= k < 2^12: the exact product, limb by
\* limb, then its top 53 bits, rounded on the d bits that fall off
DoubleMul(x, k) ==
    LET pc == x.c * k
        pb == x.b * k + pc \div Limb
        pa == x.a * k + pb \div Limb
        lc == pc % Limb
        lb == pb % Limb
        d == BitLen(pa) - 17
        low == lc % Pow2(d)
    IN  IF d = 0 THEN [a |-> pa, b |-> lb, c |-> lc, exp |-> x.exp]
        ELSE RoundEven(pa \div Pow2(d),
                       lb \div Pow2(d) + (pa % Pow2(d)) * Pow2(18 - d),
                       lc \div Pow2(d) + (lb % Pow2(d)) * Pow2(18 - d),
                       x.exp + d,
                       IF low >= Pow2(d - 1) THEN 1 ELSE 0,
                       low % Pow2(d - 1) # 0)

\* int(x) for a positive double below 2^16
DoubleToInt(x) ==
    IF -x.exp - 36 > 17 THEN 0 ELSE x.a \div Pow2(-x.exp - 36)

(***************************************************************************)
(* The progress the script derives on every run (lines 267-287).           *)
(***************************************************************************)
\* int(completed_tasks/total_tasks*100), for total_tasks > 0
PercentOf(completed_tasks, total_tasks) ==
    IF completed_tasks = 0 THEN 0
    ELSE DoubleToInt(DoubleMul(DoubleDiv(completed_tasks, total_tasks), 100))

\* lines 268-269
UpdatePercent(old, completed_tasks, total_tasks) ==
    IF total_tasks > 0 THEN PercentOf(completed_tasks, total_tasks) ELSE old

\* st.progress(percent), st.metric("XP", percent*10)
Shown(p, error) ==
    [progress |-> p, xp |-> p * 10, error |-> error, crashed |-> FALSE]

(***************************************************************************)
(* SpecProgress: the progress derived from the counts the rendering loop   *)
(* makes, over every count of up to MaxTotal tasks, from a new plan.       *)
(***************************************************************************)
InitProgress ==
    /\ plan = NonePlan
    /\ \E total \in 0..MaxTotal : \E completed \in 0..total :
           last = [op |-> "call", total_tasks |-> total,
                   completed_tasks |-> completed]
    /\ NoGen /\ NoSession /\ NoPdf

ProgressShown ==
    /\ last.op = "call"
    /\ percent' = UpdatePercent(percent, last.completed_tasks, last.total_tasks)
    /\ shown' = Shown(percent', FALSE)
    /\ last' = [last EXCEPT !.op = "return"]
    /\ UNCHANGED <<plan, api_calls, warnings, current_week, tasks_checked,
                   widgets, pdf_pc, y, drawn>>

NextProgress == ProgressShown
SpecProgress == InitProgress /\ [][NextProgress]_vars

(***************************************************************************)
(* The script.  Streamlit runs it from top to bottom once per interaction: *)
(* a click on "Generate Plan" (with what the form holds), a click on one   *)
(* checkbox, or a click on another button.                                 *)
(***************************************************************************)
\* `if st.session_state.plan:`
Truthy(p) == (p.type = "dict" /\ p.keys # {}) \/ p.type = "int"

\* key = f"{wk}_{t}" of every checkbox the plan renders, in any order
TaskKeys(p) ==
    UNION {{<<p.weeks[i].label, p.weeks[i].Tasks[j]>> :
               j \in 1..Len(p.weeks[i].Tasks)} : i \in 1..Len(p.weeks)}

\* tasks_checked.get(key, False)
Get(checked, key) == IF key \in DOMAIN checked THEN checked[key] ELSE FALSE

\* st.checkbox(t, key=key, value=value).  ws holds the widgets of the run
\* before, with what the user has set them to.  A widget that was not there
\* starts at value.  A widget that was there with the same key and the same
\* arguments keeps the user's setting, whatever value is.  When value
\* differs from the run before, Streamlit versions differ: those that
\* identify a widget by its key keep the setting, those that identify it by
\* its arguments start a new widget at value.
CheckboxResults(ws, key, value) ==
    IF key \notin DOMAIN ws THEN {value}
    ELSE IF ws[key].value = value THEN {ws[key].state}
    ELSE {ws[key].state, value}

\* lines 227-236: the session after the submit handling; gen is what
\* call_openai_for_plan returned, had it been called
AfterSubmit(sess, submitted, goal, gen) ==
    IF submitted /\ Strip(goal) # <<>>
    THEN [plan |-> gen.plan, percent |-> 0, current_week |-> 1,
          tasks_checked |-> EmptyMap]
    ELSE sess

\* lines 246-257, 267-269: the checkboxes return ret; the session after
AfterRender(sess, ret) ==
    LET keys == TaskKeys(sess.plan)
        total_tasks == Cardinality(keys)
        completed_tasks == Cardinality({k \in keys : ret[k]})
    IN  [sess EXCEPT
            !.tasks_checked =
                [k \in DOMAIN sess.tasks_checked \cup keys |->
                    IF k \in keys THEN ret[k] ELSE sess.tasks_checked[k]],
            !.percent = UpdatePercent(sess.percent, completed_tasks, total_tasks)]

Session == [plan |-> plan, percent |-> percent, current_week |-> current_week,
            tasks_checked |-> tasks_checked]

NoSessionYet ==
    [plan |-> NonePlan, percent |-> 0, current_week |-> 1,
     tasks_checked |-> EmptyMap]

\* The session state a run leaves, and what it rendered and displayed.
Leaves(sess, ws, display) ==
    /\ plan' = sess.plan
    /\ percent' = sess.percent
    /\ current_week' = sess.current_week
    /\ tasks_checked' = sess.tasks_checked
    /\ widgets' = ws
    /\ shown' = display

\* One run of the script.  ws: the widgets as the user left them;
\* submitted, req, tip: the form, and what the generator meets.
Run(ws, submitted, req, tip, op) ==
    LET error == submitted /\ Strip(req.goal) = <<>>
        called == submitted /\ ~error
    IN  \E gen \in {IF called THEN call_openai_for_plan(req, tip)
                    ELSE [plan |-> NonePlan, calls |-> api_calls,
                          warnings |-> warnings]} :
        \E s1 \in {AfterSubmit(Session, submitted, req.goal, gen)} :
            /\ api_calls' = gen.calls
            /\ warnings' = gen.warnings
            /\ last' = [op |-> op, req |-> req,
                        before |-> IF error THEN Session ELSE NoSessionYet]
            /\ IF ~Truthy(s1.plan)
               THEN Leaves(s1, EmptyMap, Shown(s1.percent, error))
               ELSE IF s1.plan.type = "int"
               THEN \* plan.get raises AttributeError at line 243
                    Leaves(s1, EmptyMap,
                           [progress |-> 0, xp |-> 0, error |-> error,
                            crashed |-> TRUE])
               ELSE \E ret \in [TaskKeys(s1.plan) -> BOOLEAN] :
                        /\ \A k \in DOMAIN ret :
                               ret[k] \in CheckboxResults(ws, k, Get(s1.tasks_checked, k))
                        /\ \E s2 \in {AfterRender(s1, ret)} :
                               Leaves(s2,
                                      [k \in DOMAIN ret |->
                                          [state |-> ret[k],
                                           value |-> Get(s1.tasks_checked, k)]],
                                      Shown(s2.percent, error))
            /\ UNCHANGED <<pdf_pc, y, drawn>>

\* The goals typed into the form: blanks and letters
Goals == UNION {[1..k -> {" ", "a"}] : k \in 0..MaxGoalLen}
SessionTexts == {<<"{", "m", "}">>, <<"1">>, <<"x">>}
\* With a blank goal the generator is not called and nothing answers.
SessionRequests ==
    {r \in Requests(Goals, 1..MaxSessionWeeks, {NoValue}, SessionTexts) :
        Strip(r.goal) = <<>> => (r.api \in {"none", "raises"} /\ r.text = <<>>)}

InitSession ==
    /\ plan = NonePlan
    /\ last = [op |-> "start", req |-> NoRequest, before |-> NoSessionYet]
    /\ NoGen /\ NoSession /\ NoPdf

\* "Generate Plan" is clicked
Submit(req, tip) == Run(widgets, TRUE, req, tip, "submit")

\* one checkbox is clicked
Toggle(key) ==
    /\ key \in DOMAIN widgets
    /\ Run([widgets EXCEPT ![key].state = ~@], FALSE, NoRequest,
           [w \in 1..1 |-> ""], "toggle")

\* "Generate Flashcards for Current Week" or a download button is clicked
Rerun == Run(widgets, FALSE, NoRequest, [w \in 1..1 |-> ""], "rerun")

NextSession ==
    \/ \E req \in SessionRequests : \E tip \in TipChoices(req.weeks) : Submit(req, tip)
    \/ \E key \in DOMAIN widgets : Toggle(key)
    \/ Rerun

SpecSession == InitSession /\ [][NextSession]_vars

\* C8: after a refresh the percentage is floor(100 * checked / total) when
\* the plan has a task and 0 when it has none, it lies in 0..100, and the XP
\* displayed is ten times the percentage.
C8_PercentIsFloor ==
    last.op = "return" =>
        /\ percent = IF last.total_tasks > 0
                     THEN (100 * last.completed_tasks) \div last.total_tasks
                     ELSE 0
        /\ percent \in 0..100
        /\ shown.xp = percent * 10


\* C9: a submit with a non-blank goal resets the session: the plan is the
\* one just generated, percent is 0, current_week is 1 and every task of the
\* new plan is unchecked; a submit with a blank goal reports an error and
\* leaves plan, percent, current_week and the completion map as they were.
C9_SubmitResetsSession ==
    last.op = "submit" =>
        IF Strip(last.req.goal) # <<>>
        THEN /\ \E tip \in TipChoices(last.req.weeks) :
                    plan = call_openai_for_plan(last.req, tip).plan
             /\ percent = 0
             /\ current_week = 1
             /\ \A k \in DOMAIN tasks_checked : ~tasks_checked[k]
        ELSE /\ shown.error
             /\ Session = last.before

(***************************************************************************)
(* create_pdf_bytes.  One step per drawString, so that every painted line  *)
(* is a state.  The plan is any plan: whether there is one more milestone, *)
(* week, task or note line, and whether a week has resources, a reflection *)
(* and a tip, is chosen at each step.                                      *)
(***************************************************************************)
PageHeight == 792      \* letter = (612, 792)
Margin == 40
PageTop == PageHeight - Margin

\* `if y < 60: c.showPage(); y = height - margin`
PageBreak(cursor) == IF cursor < 60 THEN PageTop ELSE cursor

WeekBreak_Typo(cursor) == IF cursor < 8 THEN PageTop ELSE cursor

\* `if y < 80: c.showPage(); y = height - margin`
WeekBreak(cursor) == IF cursor < 80 THEN PageTop ELSE cursor

\* c.drawString(x, y, line); y -= step; then to the statement `to`
Draw(at, step, to) ==
    /\ pdf_pc = at
    /\ drawn' = y
    /\ y' = y - step
    /\ pdf_pc' = to

NoPlanChange ==
    UNCHANGED <<plan, last, api_calls, warnings, percent, current_week,
                tasks_checked, widgets, shown>>

InitPdf ==
    /\ plan = NonePlan
    /\ last = [op |-> "create_pdf_bytes"]
    /\ NoGen /\ NoSession
    /\ pdf_pc = "title"
    /\ y = PageTop
    /\ drawn = PageTop

DrawTitle == Draw("title", 30, "timestamp") /\ NoPlanChange
DrawTimestamp == Draw("timestamp", 25, "milestones_header") /\ NoPlanChange
DrawMilestonesHeader == Draw("milestones_header", 18, "milestones") /\ NoPlanChange

DrawMilestone ==
    /\ pdf_pc = "milestones"
    /\ drawn' = y
    /\ y' = PageBreak(y - 14)
    /\ UNCHANGED pdf_pc
    /\ NoPlanChange

EndMilestones ==
    /\ pdf_pc = "milestones"
    /\ y' = y - 8
    /\ pdf_pc' = "weeks"
    /\ UNCHANGED drawn
    /\ NoPlanChange

DrawWeekHeader == Draw("weeks", 16, "tasks") /\ NoPlanChange

DrawTask ==
    /\ pdf_pc = "tasks"
    /\ drawn' = y
    /\ y' = PageBreak(y - 12)
    /\ UNCHANGED pdf_pc
    /\ NoPlanChange

\* `if res:`, `if refl:`: the line is painted, or there is none
DrawResources == Draw("tasks", 14, "reflection") /\ NoPlanChange
NoResources == pdf_pc = "tasks" /\ pdf_pc' = "reflection" /\ UNCHANGED <<y, drawn>> /\ NoPlanChange
DrawReflection == Draw("reflection", 12, "tip") /\ NoPlanChange
NoReflection == pdf_pc = "reflection" /\ pdf_pc' = "tip" /\ UNCHANGED <<y, drawn>> /\ NoPlanChange

\* `if tip:` and then the check that ends the week
DrawTip ==
    /\ pdf_pc = "tip"
    /\ drawn' = y
    /\ y' = WeekBreak(y - 18)
    /\ pdf_pc' = "weeks"
    /\ NoPlanChange
NoTip ==
    /\ pdf_pc = "tip"
    /\ y' = WeekBreak(y)
    /\ pdf_pc' = "weeks"
    /\ UNCHANGED drawn
    /\ NoPlanChange

DrawNotesHeader == Draw("weeks", 16, "notes") /\ NoPlanChange

\* "".split("\n") is [""]: there is always a first line
DrawNoteLine ==
    /\ pdf_pc \in {"notes", "more_notes"}
    /\ drawn' = y
    /\ y' = PageBreak(y - 12)
    /\ pdf_pc' = "more_notes"
    /\ NoPlanChange

Save ==
    /\ pdf_pc = "more_notes"
    /\ pdf_pc' = "done"
    /\ UNCHANGED <<y, drawn>>
    /\ NoPlanChange

NextPdf ==
    \/ DrawTitle \/ DrawTimestamp \/ DrawMilestonesHeader
    \/ DrawMilestone \/ EndMilestones
    \/ DrawWeekHeader \/ DrawTask
    \/ DrawResources \/ NoResources
    \/ DrawReflection \/ NoReflection
    \/ DrawTip \/ NoTip
    \/ DrawNotesHeader \/ DrawNoteLine \/ Save

SpecPdf == InitPdf /\ [][NextPdf]_vars

\* C10: every line create_pdf_bytes paints is painted at a cursor position
\* between 0 and 752, the page height less the margin.
C10_PaintedOnThePage == 0 <= drawn /\ drawn <= 752

C10_Witness == pdf_pc = "weeks" /\ drawn < 20 /\ y = PageTop

====
